---- MODULE Spec2Model ----
(***************************************************************************)
(* Auto-capture face enrollment (src/src/components/CapturePage/index.tsx, *)
(* first component) mounted by Home (src/unnamed/part_000).                *)
(*                                                                         *)
(* React semantics used by the model:                                      *)
(*  - every handler or async continuation runs to completion; the state    *)
(*    updates it makes are batched and applied by one later Render;        *)
(*  - a function created by a render (detectFaces, captureImage,           *)
(*    handleVideoReady) reads the state values of THAT render (its         *)
(*    closure); refs are shared mutable cells;                             *)
(*  - an effect runs again only when one of its dependencies changed, its  *)
(*    previous cleanup running first;                                      *)
(*  - requestAnimationFrame callbacks, promise continuations, video events *)
(*    and Render interleave in any order; a pending Render is delayed by   *)
(*    at most MaxPendingSteps steps of the loops and by no clock step.     *)
(*                                                                         *)
(* stabilityCount, the state that only mirrors stableDirectionCountRef on  *)
(* the screen, is left out: no effect depends on it and no closure reads   *)
(* it.                                                                     *)
(*                                                                         *)
(* Six specifications share the definitions:                               *)
(*  - Spec: the component under a free camera scene and clock;             *)
(*  - ScriptSpec: the component fed a fixed script of detections;          *)
(*  - TrackerSpec: updateStabilityCount and the reset on their own;        *)
(*  - ClassifierSpec: determineFaceDirection on synthetic landmark sets;   *)
(*  - ManualSpec: the button variant (same file, second component)         *)
(*    mounted by the typed Home (src/src/pages/home/index.tsx);            *)
(*  - VariantsSpec: either variant, chosen by the initial state.           *)
(***************************************************************************)
EXTENDS Integers, Sequences, FiniteSets, TLC

\* ---------------------------------------------------------------- bounds
MaxOverlaps == 1       \* video events that start a loop beside a living one
MaxSceneChanges == 2   \* times the user turns the head to another pose
MaxPendingSteps == 2   \* loop steps that may run before a pending render
SettleTicks == 2       \* the head turns only this early in a stability window
MaxClockTicks == 4     \* clock steps of a session
ClockStep == 1500      \* ms per clock step
StartTime == 3000      \* Date.now() when the session starts
FramePeriod == 200     \* ms between two ticks of a scripted session
PoseRun == 12          \* ticks a scripted session holds a pose
MaxLead == 9           \* front ticks before the no-face tick of a script
MaxObservations == 12  \* observations the tracker is followed for
MaxCoord == 3          \* synthetic landmark x-coordinates are 0..MaxCoord
MaxScale == 3          \* largest factor a landmark set is scaled by
MaxSessions == 2       \* capture sessions started from the instructions page

\* ------------------------------------------------------ program constants
WindowCapacity == 10   \* index.tsx:164
StableThreshold == 8   \* index.tsx:295
CooldownMs == 1500     \* index.tsx:300

Null == "null"

\* ------------------------------------------------------------- classifier
\* x coordinates of the seven landmarks determineFaceDirection reads
Landmarks(n, lo, ro, li, ri, lm, rm) ==
    [noseTip |-> n, leftEyeOuter |-> lo, rightEyeOuter |-> ro,
     leftEyeInner |-> li, rightEyeInner |-> ri,
     leftMouthCorner |-> lm, rightMouthCorner |-> rm]

Abs(x) == IF x < 0 THEN -x ELSE x

\* Twice the eye-centre sum: 4 * faceCenterX
EyeSum(p) == p.leftEyeOuter + p.leftEyeInner + p.rightEyeOuter + p.rightEyeInner
\* 2 * eyeDistance
EyeDist2(p) == Abs((p.rightEyeOuter + p.rightEyeInner) - (p.leftEyeOuter + p.leftEyeInner))
\* noseDeviation = NoseNum / (2 * EyeDist2), mouthDeviation = MouthNum / (2 * EyeDist2)
NoseNum(p) == 4 * p.noseTip - EyeSum(p)
MouthNum(p) == 2 * (p.leftMouthCorner + p.rightMouthCorner) - EyeSum(p)
leftEyeWidth(p) == Abs(p.leftEyeOuter - p.leftEyeInner)
rightEyeWidth(p) == Abs(p.rightEyeOuter - p.rightEyeInner)

\* avgDeviation = (NoseNum + MouthNum) / (4 * EyeDist2); with eyeDistance = 0 the
\* two deviations are +-Infinity or NaN and so is their average.
AvgAbsBelowFront(p) ==
    /\ EyeDist2(p) > 0
    /\ 10 * Abs(NoseNum(p) + MouthNum(p)) < 4 * EyeDist2(p)
AvgAboveProfilePixels(p) == NoseNum(p) + MouthNum(p) > 8
AvgAboveProfile(p) ==
    IF EyeDist2(p) > 0 THEN 5 * (NoseNum(p) + MouthNum(p)) > 4 * EyeDist2(p)
    ELSE NoseNum(p) > 0 /\ MouthNum(p) > 0
AvgBelowMinusProfile(p) ==
    IF EyeDist2(p) > 0 THEN 5 * (NoseNum(p) + MouthNum(p)) < -(4 * EyeDist2(p))
    ELSE NoseNum(p) < 0 /\ MouthNum(p) < 0

\* a classifier that tests left before right
determineFaceDirectionLeftFirst(p) ==
    LET L == leftEyeWidth(p)
        R == rightEyeWidth(p)
    IN  IF AvgAbsBelowFront(p) /\ 5 * L > 4 * R /\ 4 * L < 5 * R THEN "front"
        ELSE IF AvgBelowMinusProfile(p) \/ 5 * L < 3 * R THEN "left"
        ELSE IF AvgAboveProfile(p) \/ 5 * L > 7 * R THEN "right"
        ELSE "front"

\* a classifier without the default branch
determineFaceDirectionOrNone(p) ==
    LET L == leftEyeWidth(p)
        R == rightEyeWidth(p)
    IN  IF AvgAbsBelowFront(p) /\ 5 * L > 4 * R /\ 4 * L < 5 * R THEN "front"
        ELSE IF AvgAboveProfile(p) \/ 5 * L > 7 * R THEN "right"
        ELSE IF AvgBelowMinusProfile(p) \/ 5 * L < 3 * R THEN "left"
        ELSE "none"

determineFaceDirection(p) ==
    LET L == leftEyeWidth(p)
        R == rightEyeWidth(p)
    IN  IF AvgAbsBelowFront(p) /\ 5 * L > 4 * R /\ 4 * L < 5 * R THEN "front"
        ELSE IF AvgAboveProfile(p) \/ 5 * L > 7 * R THEN "right"
        ELSE IF AvgBelowMinusProfile(p) \/ 5 * L < 3 * R THEN "left"
        ELSE "front"

\* determineFaceDirection returns the bare FaceDirection string; no value of
\* DirectionDeterminationResult (types.ts:235-245) is ever built, so the
\* result carries no confidence
confidence(p) == Null

FrontFace == Landmarks(50, 0, 100, 40, 60, 30, 70)
RightFace == Landmarks(80, 0, 100, 40, 60, 60, 100)
LeftFace == Landmarks(20, 0, 100, 40, 60, 0, 40)
Faces == {FrontFace, RightFace, LeftFace}
\* both eye centres at x = 50: eyeDistance = 0
DegenerateFace == Landmarks(50, 40, 60, 60, 40, 30, 70)

\* What one detectAllFaces call returns: the number of faces and, for the
\* first, its landmarks
NoFace == [faces |-> 0, landmarks |-> FrontFace]
TwoFaces == [faces |-> 2, landmarks |-> FrontFace]
OneFace(p) == [faces |-> 1, landmarks |-> p]
Glitches == {NoFace, TwoFaces}
Scenes == {OneFace(p) : p \in Faces}

\* ------------------------------------------------------------------ state
VARIABLES
    home,                       \* Home's state as of its last render
    homeNext,                   \* Home's state after the updates queued so far
    rendered,                   \* CapturePage's state as of its last render
    state,                      \* CapturePage's state after the updates queued so far
    animationFrameRef,          \* 0 (null) or the loop whose request is the latest
    lastCaptureTimeRef,
    stableDirectionCountRef,
    consecutiveDetectionsRef,
    listener,                   \* handleVideoReady registered on the video element
    loops,                      \* the detectFaces callbacks scheduled or awaiting
    stream,                     \* the camera stream behind the video element
    scene, sceneChanges, now,   \* what the camera sees, and the clock
    overlaps,                   \* video events that started a loop beside a living one
    pendingSteps,               \* loop steps taken since the updates not yet rendered
    completeCalls,              \* the arguments onComplete was called with
    lastTick,                   \* what the last finished detection tick did
    obsSince,                   \* history: target observations since a no-face tick
    script, fed,                \* scripted sessions: the detections to deliver, and
                                \* how many of them were delivered
    observed                    \* history: the directions pushed since the last reset

vars == <<home, homeNext, rendered, state, animationFrameRef, lastCaptureTimeRef,
          stableDirectionCountRef, consecutiveDetectionsRef, listener, loops, stream,
          scene, sceneChanges, now, overlaps, pendingSteps, completeCalls,
          lastTick, obsSince, fed, script, observed>>

LoopIds == 1..(MaxOverlaps + 1)

\* useState initial values of Home and CapturePage
HomeInitial == [currentPage |-> "instructions", capturedImages |-> <<>>]
\* a component whose first step is right
InitialStateRight ==
    [isLoading |-> TRUE, currentStep |-> "right", capturedImages |-> <<>>,
     error |-> Null, currentDirection |-> Null, isCapturing |-> FALSE]

InitialState ==
    [isLoading |-> TRUE, currentStep |-> "center", capturedImages |-> <<>>,
     error |-> Null, currentDirection |-> Null, isCapturing |-> FALSE]

\* The state values a function created by a render reads
Closure(s) ==
    [currentStep |-> s.currentStep, capturedImages |-> s.capturedImages,
     isCapturing |-> s.isCapturing]

IdleLoop == [pc |-> "idle", closure |-> Closure(InitialState)]
NoListener == [on |-> FALSE, closure |-> Closure(InitialState)]
NoTick ==
    [faces |-> -1, direction |-> Null, step |-> "center", closureStep |-> "center",
     count |-> 0, elapsed |-> 0, called |-> FALSE, captured |-> FALSE,
     failed |-> FALSE, images |-> 0, inWindow |-> FALSE, status |-> ""]

Mounted == home.currentPage = "capture"
\* videoRef, canvasRef and overlayCanvasRef are attached while the video is rendered
VideoRefSet == Mounted /\ ~rendered.isLoading /\ rendered.currentStep # "complete"

\* Updates are queued that no render has applied yet
Dirty == homeNext # home \/ (Mounted /\ state # rendered)

\* A pending render is not delayed beyond MaxPendingSteps steps of the loops
CanStep == Dirty => pendingSteps < MaxPendingSteps
Stepped == IF Dirty THEN pendingSteps + 1 ELSE 0

Positions(images) == [k \in 1..Len(images) |-> images[k].position]

\* Home and CapturePage as constructed, before anything has run
Constructed ==
    /\ home = HomeInitial
    /\ homeNext = HomeInitial
    /\ rendered = InitialState
    /\ state = InitialState
    /\ animationFrameRef = 0
    /\ lastCaptureTimeRef = 0
    /\ stableDirectionCountRef = 0
    /\ consecutiveDetectionsRef = <<>>
    /\ listener = NoListener
    /\ loops = [i \in LoopIds |-> IdleLoop]
    /\ stream = "none"
    /\ sceneChanges = 0
    /\ overlaps = 0
    /\ pendingSteps = 0
    /\ now = StartTime
    /\ completeCalls = <<>>
    /\ lastTick = NoTick
    /\ obsSince = -1
    /\ fed = 0
    /\ observed = <<>>

Init ==
    /\ Constructed
    /\ scene \in Scenes
    /\ script = <<>>

\* ------------------------------------------------------- stability tracker
\* push without the shift of line 165
PushUnbounded(window, direction) == Append(window, direction)

\* push, then shift when longer than the capacity
PushDetection(window, direction) ==
    LET pushed == Append(window, direction)
    IN  IF Len(pushed) > WindowCapacity THEN Tail(pushed) ELSE pushed

\* the count of the most frequent direction of the window
ModeCount(window, direction) ==
    LET n(d) == Cardinality({k \in 1..Len(window) : window[k] = d})
        Directions == {"front", "right", "left"}
    IN  CHOOSE m \in 0..Len(window) :
            /\ \A d \in Directions : n(d) <= m
            /\ m = 0 \/ \E d \in Directions : n(d) = m

\* a count that leaves out the observation just pushed
matchingOlderDetections(window, direction) ==
    Cardinality({k \in 1..(Len(window) - 1) : window[k] = direction})

\* filter(d => d === direction).length
matchingDetections(window, direction) ==
    Cardinality({k \in 1..Len(window) : window[k] = direction})

\* ------------------------------------------------------------- sequencer
positionMap(direction) ==
    CASE direction = "front" -> "center"
      [] direction = "right" -> "right"
      [] direction = "left" -> "left"

targetDirection(step) ==
    IF step = "center" THEN "front" ELSE IF step = "right" THEN "right" ELSE "left"

\* a sequencer that skips the right step
NextStepSkipping(step) ==
    CASE step = "center" -> "left"
      [] step = "right" -> "complete"
      [] step = "left" -> "complete"
      [] OTHER -> step

\* "Move to next step": the value setCurrentStep is called with, if it is called
NextStep(step) ==
    CASE step = "center" -> "right"
      [] step = "right" -> "left"
      [] step = "left" -> "complete"
      [] OTHER -> step

\* onComplete also called when the right step is left
CompletesEarly(step) == step \in {"right", "left"}

\* The branch of captureImage that stops the camera and calls onComplete
CompletesAt(step) == step = "left"

\* The early return of captureImage
CaptureRejected(c) == ~VideoRefSet \/ c.isCapturing

\* a gate that opens at the boundary already
cooldownAtBoundary(t, last) == t - last >= CooldownMs

\* a gate that is always open
cooldownOpen(t, last) == TRUE

\* timeSinceLastCapture > 1500
cooldownPassed(t, last) == t - last > CooldownMs

isStable(count) == count >= StableThreshold

AutoCapture(c, direction, count, t, last) ==
    /\ direction = targetDirection(c.currentStep)
    /\ isStable(count)
    /\ cooldownPassed(t, last)
    /\ c.currentStep # "complete"

\* The refs and state one tick reads and writes, as a record
Cells ==
    [state |-> state, window |-> consecutiveDetectionsRef,
     count |-> stableDirectionCountRef, last |-> lastCaptureTimeRef,
     stream |-> stream, completeCalls |-> completeCalls, homeNext |-> homeNext]

\* setX(v) of an unmounted component changes nothing
SetState(m, s) == IF Mounted THEN [m EXCEPT !.state = s] ELSE m

\* a capture that leaves the window, the count and the timestamp as they were
KeepCounters(m, t) == m

\* a capture that empties the window but leaves the timestamp as it was
ResetWindowOnly(m, t) == [m EXCEPT !.count = 0, !.window = <<>>]

\* "Reset counters" at the end of a successful capture
ResetCounters(m, t) == [m EXCEPT !.count = 0, !.window = <<>>, !.last = t]

\* handleCaptureComplete of Home, called as onComplete(updatedImages)
onComplete(m, images) ==
    [m EXCEPT !.completeCalls = Append(@, images),
              !.homeNext = [currentPage |-> "preview", capturedImages |-> images]]

\* canvas.toDataURL of the drawn frame: the image shows what the camera saw
toDataURL(frame) == frame.landmarks

StopTracks(s) == IF s \in {"attached", "live"} THEN "stopped" ELSE s

\* a catch block that swallows the failure
CaptureFailedSilently(m) == m

\* a catch block that returns before setIsCapturing(false)
CaptureFailedKeepsFlag(m) ==
    SetState(m, [m.state EXCEPT !.error = "capture", !.isCapturing = TRUE])

\* a catch block that also resets the window and the count
CaptureFailedResets(m) ==
    [SetState(m, [m.state EXCEPT !.error = "capture", !.isCapturing = FALSE])
        EXCEPT !.count = 0, !.window = <<>>]

\* a catch block that also clears the last-capture timestamp
CaptureFailedClearsStamp(m) ==
    [SetState(m, [m.state EXCEPT !.error = "capture", !.isCapturing = FALSE])
        EXCEPT !.last = 0]

\* The catch block of captureImage and the setIsCapturing(false) after it
CaptureFailed(m) ==
    SetState(m, [m.state EXCEPT !.error = "capture", !.isCapturing = FALSE])

\* captureImage(direction) called from closure c at time t while the video
\* shows `frame`; ok: the canvas gave a context and drawing and encoding did
\* not throw
captureImage(m, c, direction, t, frame, ok) ==
    IF CaptureRejected(c) THEN m
    ELSE IF ~ok
    THEN CaptureFailed(m)
    ELSE
        LET newImage == [dataUrl |-> toDataURL(frame), position |-> positionMap(direction)]
            updatedImages == Append(c.capturedImages, newImage)
            moved == SetState(m, [m.state EXCEPT
                        !.capturedImages = updatedImages,
                        !.currentStep = IF c.currentStep \in {"center", "right", "left"}
                                        THEN NextStep(c.currentStep) ELSE @,
                        !.error = Null,
                        !.isCapturing = FALSE])
            done == IF CompletesAt(c.currentStep)
                    THEN onComplete([moved EXCEPT !.stream = StopTracks(@)], updatedImages)
                    ELSE moved
        IN  ResetCounters(done, t)

\* updateStabilityCount(direction)
updateStabilityCount(m, direction) ==
    LET window == PushDetection(m.window, direction)
    IN  [m EXCEPT !.window = window, !.count = matchingDetections(window, direction)]

\* the else branch without its two assignments to the refs
KeepStability(m) == SetState(m, [m.state EXCEPT !.currentDirection = Null])

\* "Reset stability when no single face is detected"
ResetStability(m) ==
    SetState([m EXCEPT !.count = 0, !.window = <<>>],
             [m.state EXCEPT !.currentDirection = Null])

\* The body of detectFaces after the detection call returned `detections`
\* (lines 276-369), run from closure c at time t
AfterDetection(m, c, detections, t, frame, ok) ==
    IF detections.faces = 1
    THEN LET direction == determineFaceDirection(detections.landmarks)
             seen == updateStabilityCount(
                        SetState(m, [m.state EXCEPT !.currentDirection = direction]),
                        direction)
         IN  IF AutoCapture(c, direction, seen.count, t, seen.last)
             THEN captureImage(seen, c, direction, t, frame, ok)
             ELSE seen
    ELSE ResetStability(m)

\* What the history variable records of a tick
\* one text for every tick without a single face
statusTextMerged(detections) ==
    IF detections.faces = 1 THEN "Turn / Good! Hold steady / Perfect!"
    ELSE "No single face detected"

\* The status text drawn on the overlay (lines 342-366); the three texts of
\* the single-face branch, which guide the pose, are kept as one value
statusText(detections) ==
    IF detections.faces = 0 THEN "No face detected"
    ELSE IF detections.faces = 1 THEN "Turn / Good! Hold steady / Perfect!"
    ELSE "Multiple faces detected - show only one face"

TickRecord(m, c, detections, t, ok) ==
    LET one == detections.faces = 1
        direction == IF one THEN determineFaceDirection(detections.landmarks) ELSE Null
        count == IF one THEN updateStabilityCount(m, direction).count ELSE 0
        called == one /\ AutoCapture(c, direction, count, t, m.last)
    IN  [faces |-> detections.faces,
         direction |-> direction,
         step |-> m.state.currentStep,
         closureStep |-> c.currentStep,
         count |-> count,
         elapsed |-> t - m.last,
         called |-> called,
         captured |-> called /\ ~CaptureRejected(c) /\ ok,
         failed |-> called /\ ~CaptureRejected(c) /\ ~ok,
         images |-> Len(m.state.capturedImages),
         inWindow |-> m.state.capturedImages # rendered.capturedImages,
         status |-> statusText(detections)]

ObservedSince(m, detections) ==
    IF Len(m.state.capturedImages) > 0 THEN obsSince
    ELSE IF detections.faces = 0 THEN 0
    ELSE IF /\ detections.faces = 1
            /\ obsSince \in 0..(StableThreshold - 1)
            /\ determineFaceDirection(detections.landmarks) = targetDirection("center")
    THEN (IF obsSince + 1 = StableThreshold THEN -1 ELSE obsSince + 1)
    ELSE obsSince

\* ---------------------------------------------------------------- the loop
\* cancelAnimationFrame(animationFrameRef.current): only a pending request dies
CancelFrame(lp, ref) ==
    IF ref # 0 /\ lp[ref].pc = "scheduled" THEN [lp EXCEPT ![ref] = IdleLoop] ELSE lp

\* video.readyState === 4
ReadyStates ==
    IF stream = "live" THEN {TRUE}
    ELSE IF stream = "stopped" THEN {TRUE, FALSE}
    ELSE {FALSE}

\* The guards at the top of detectFaces (lines 243-255): TRUE when the tick
\* only reschedules itself
SkipsTick(c, ready) == ~VideoRefSet \/ c.isCapturing \/ ~ready

\* A requestAnimationFrame callback runs: detectFaces up to its await
FrameFires(i) ==
    /\ loops[i].pc = "scheduled"
    /\ CanStep
    /\ pendingSteps' = Stepped
    /\ \E ready \in ReadyStates :
         IF SkipsTick(loops[i].closure, ready)
         THEN loops' = loops
         ELSE loops' = [loops EXCEPT ![i].pc = "awaiting"]
    /\ animationFrameRef' = IF loops'[i].pc = "scheduled" THEN i ELSE animationFrameRef
    /\ UNCHANGED <<home, homeNext, rendered, state, lastCaptureTimeRef,
                   stableDirectionCountRef, consecutiveDetectionsRef, listener, stream,
                   scene, sceneChanges, now, overlaps, completeCalls, obsSince, fed, script, observed>>
    /\ lastTick' = NoTick

\* The rest of detectFaces once the detection call has returned, up to and
\* including the requestAnimationFrame of line 377
Resume(i, detections, frame, ok) ==
    LET c == loops[i].closure
        after == AfterDetection(Cells, c, detections, now, frame, ok)
    IN  /\ CanStep
        /\ pendingSteps' = Stepped
        /\ state' = after.state
        /\ consecutiveDetectionsRef' = after.window
        /\ stableDirectionCountRef' = after.count
        /\ lastCaptureTimeRef' = after.last
        /\ stream' = after.stream
        /\ completeCalls' = after.completeCalls
        /\ homeNext' = after.homeNext
        /\ lastTick' = TickRecord(Cells, c, detections, now, ok)
        /\ loops' = [loops EXCEPT ![i].pc = "scheduled"]
        /\ animationFrameRef' = i
        /\ UNCHANGED <<home, rendered, listener, scene, sceneChanges>>

\* The detection call returns what the camera sees
DetectionResolves(i) ==
    /\ loops[i].pc = "awaiting"
    /\ \E ok \in BOOLEAN : Resume(i, scene, scene, ok)
    /\ UNCHANGED <<overlaps, fed, script, observed, obsSince, now>>

\* The detection call returns no face, or two
DetectionGlitches(i) ==
    /\ loops[i].pc = "awaiting"
    /\ \E detections \in Glitches : Resume(i, detections, scene, TRUE)
    /\ UNCHANGED <<overlaps, fed, script, observed, obsSince, now>>

\* The detection call throws: the catch block, then line 377
DetectionThrows(i) ==
    /\ loops[i].pc = "awaiting"
    /\ CanStep
    /\ pendingSteps' = Stepped
    /\ loops' = [loops EXCEPT ![i].pc = "scheduled"]
    /\ animationFrameRef' = i
    /\ UNCHANGED <<home, homeNext, rendered, state, lastCaptureTimeRef,
                   stableDirectionCountRef, consecutiveDetectionsRef, listener, stream,
                   scene, sceneChanges, now, overlaps, completeCalls, obsSince, fed, script, observed>>
    /\ lastTick' = NoTick

\* handleVideoReady of the render whose closure is c (lines 384-389)
handleVideoReady(lp, ref, c, i) ==
    [CancelFrame(lp, ref) EXCEPT ![i] = [pc |-> "scheduled", closure |-> c]]

FreeSlots(lp) == {i \in LoopIds : lp[i].pc = "idle"}
FirstFree(lp) == CHOOSE i \in FreeSlots(lp) : \A j \in FreeSlots(lp) : i <= j

\* 'loadedmetadata' or 'play' fires on the video element
VideoEvent ==
    /\ Mounted
    /\ listener.on
    /\ stream \in {"attached", "live"}
    /\ LET left == CancelFrame(loops, animationFrameRef)
           beside == \E i \in LoopIds : left[i].pc # "idle"
           i == FirstFree(left)
       IN  /\ beside => overlaps < MaxOverlaps
           /\ overlaps' = IF beside THEN overlaps + 1 ELSE overlaps
           /\ loops' = handleVideoReady(loops, animationFrameRef, listener.closure, i)
           /\ animationFrameRef' = i
    /\ UNCHANGED <<home, homeNext, rendered, state, lastCaptureTimeRef,
                   stableDirectionCountRef, consecutiveDetectionsRef, listener, stream,
                   scene, sceneChanges, now, completeCalls, obsSince, fed, script, observed, pendingSteps>>
    /\ lastTick' = NoTick

\* ------------------------------------------------------------ the effects
\* The dependencies [isLoading, currentStep, currentDirection] of the loop effect
LoopDeps(s) == <<s.isLoading, s.currentStep, s.currentDirection>>

\* The condition under which the loop effect registers its listeners
RegistersListeners(s) == ~s.isLoading /\ s.currentStep # "complete"

\* The cleanup the loop effect returned (lines 394-400), if it returned one
LoopCleanup(lp, ref) == IF listener.on THEN CancelFrame(lp, ref) ELSE lp

\* The cleanup of the camera effect (lines 92-101)
CameraCleanup(lp, ref) == CancelFrame(lp, ref)

\* CapturePage renders with the queued state and its effects run
Commit ==
    /\ rendered' = state
    /\ IF LoopDeps(state) # LoopDeps(rendered)
       THEN /\ loops' = LoopCleanup(loops, animationFrameRef)
            /\ listener' = IF RegistersListeners(state)
                           THEN [on |-> TRUE, closure |-> Closure(state)]
                           ELSE NoListener
       ELSE UNCHANGED <<loops, listener>>
    /\ stream' = IF rendered.isLoading /\ ~state.isLoading THEN "requested" ELSE stream
    /\ UNCHANGED <<state, animationFrameRef>>

\* Home renders CapturePage for the first time
Mount ==
    /\ rendered' = InitialState
    /\ state' = InitialState
    /\ UNCHANGED <<loops, listener, stream, animationFrameRef>>

\* Home stops rendering CapturePage: both cleanups run and the refs detach
Unmount ==
    /\ loops' = CameraCleanup(LoopCleanup(loops, animationFrameRef), animationFrameRef)
    /\ listener' = NoListener
    /\ stream' = StopTracks(stream)
    /\ animationFrameRef' = 0
    /\ UNCHANGED <<rendered, state>>

\* React applies the queued updates of Home and CapturePage in one render
Render ==
    /\ Dirty
    /\ home' = homeNext
    /\ IF ~Mounted /\ homeNext.currentPage = "capture" THEN Mount
       ELSE IF Mounted /\ homeNext.currentPage # "capture" THEN Unmount
       ELSE IF Mounted THEN Commit
       ELSE UNCHANGED <<rendered, state, loops, listener, stream, animationFrameRef>>
    /\ UNCHANGED <<homeNext, lastCaptureTimeRef, stableDirectionCountRef,
                   consecutiveDetectionsRef, scene, sceneChanges, now, overlaps, completeCalls,
                   obsSince, fed, script, observed>>
    /\ pendingSteps' = 0
    /\ lastTick' = NoTick

\* handleStartCapture of Home: the Start button of the instructions page
handleStartCapture ==
    /\ home.currentPage = "instructions"
    /\ homeNext.currentPage = "instructions"
    /\ homeNext' = [homeNext EXCEPT !.currentPage = "capture"]
    /\ UNCHANGED <<home, rendered, state, animationFrameRef, lastCaptureTimeRef,
                   stableDirectionCountRef, consecutiveDetectionsRef, listener, loops,
                   stream, scene, sceneChanges, now, overlaps, completeCalls, obsSince,
                   fed, script, observed, pendingSteps>>
    /\ lastTick' = NoTick

\* loadModels resolves: setIsLoading(false)
ModelsLoaded ==
    /\ Mounted
    /\ state.isLoading
    /\ state' = [state EXCEPT !.isLoading = FALSE]
    /\ UNCHANGED <<home, homeNext, rendered, animationFrameRef, lastCaptureTimeRef,
                   stableDirectionCountRef, consecutiveDetectionsRef, listener, loops,
                   stream, scene, sceneChanges, now, overlaps, completeCalls, obsSince,
                   fed, script, observed, pendingSteps>>
    /\ lastTick' = NoTick

\* getUserMedia resolves and initCamera attaches the stream to the video
CameraReady ==
    /\ stream = "requested"
    /\ VideoRefSet
    /\ stream' = "attached"
    /\ UNCHANGED <<home, homeNext, rendered, state, animationFrameRef,
                   lastCaptureTimeRef, stableDirectionCountRef, consecutiveDetectionsRef,
                   listener, loops, scene, sceneChanges, now, overlaps, completeCalls,
                   obsSince, fed, script, observed, pendingSteps>>
    /\ lastTick' = NoTick

\* The video has enough data to play: readyState becomes 4
StreamPlaying ==
    /\ stream = "attached"
    /\ stream' = "live"
    /\ UNCHANGED <<home, homeNext, rendered, state, animationFrameRef,
                   lastCaptureTimeRef, stableDirectionCountRef, consecutiveDetectionsRef,
                   listener, loops, scene, sceneChanges, now, overlaps, completeCalls,
                   obsSince, fed, script, observed, pendingSteps>>
    /\ lastTick' = NoTick

\* ------------------------------------------------------------ environment
\* The scene and the clock are read only when a detection call returns, so
\* they are advanced only while one is running
DetectionRunning == \E i \in LoopIds : loops[i].pc = "awaiting"

SceneChange ==
    /\ sceneChanges < MaxSceneChanges
    /\ Len(consecutiveDetectionsRef) <= SettleTicks
    /\ DetectionRunning
    /\ scene' \in Scenes \ {scene}
    /\ sceneChanges' = sceneChanges + 1
    /\ UNCHANGED <<home, homeNext, rendered, state, animationFrameRef,
                   lastCaptureTimeRef, stableDirectionCountRef, consecutiveDetectionsRef,
                   listener, loops, stream, now, overlaps, completeCalls, obsSince, fed, script, observed, pendingSteps>>
    /\ lastTick' = NoTick

ClockTick ==
    /\ now < StartTime + MaxClockTicks * ClockStep
    /\ ~cooldownPassed(now, lastCaptureTimeRef)
    /\ DetectionRunning
    /\ ~Dirty
    /\ now' = now + ClockStep
    /\ UNCHANGED <<home, homeNext, rendered, state, animationFrameRef,
                   lastCaptureTimeRef, stableDirectionCountRef, consecutiveDetectionsRef,
                   listener, loops, stream, scene, sceneChanges, overlaps, completeCalls,
                   obsSince, fed, script, observed, pendingSteps>>
    /\ lastTick' = NoTick

Next ==
    \/ handleStartCapture
    \/ ModelsLoaded
    \/ Render
    \/ CameraReady
    \/ StreamPlaying
    \/ VideoEvent
    \/ \E i \in LoopIds : FrameFires(i)
    \/ \E i \in LoopIds : DetectionResolves(i)
    \/ \E i \in LoopIds : DetectionGlitches(i)
    \/ \E i \in LoopIds : DetectionThrows(i)
    \/ SceneChange
    \/ ClockTick

Spec == Init /\ [][Next]_vars

\* ------------------------------------------------------ scripted sessions
\* The detection calls return the entries of a script, one per tick, the
\* clock advancing by one frame period per tick
Run(detections, n) == [k \in 1..n |-> detections]

ThreePoses ==
    Run(OneFace(FrontFace), PoseRun) \o Run(OneFace(RightFace), PoseRun)
        \o Run(OneFace(LeftFace), PoseRun)

Interrupted(lead) ==
    Run(OneFace(FrontFace), lead) \o <<NoFace>> \o Run(OneFace(FrontFace), PoseRun)

Degenerate == Run(OneFace(DegenerateFace), PoseRun)

\* the user keeps facing the camera
Lingering == Run(OneFace(FrontFace), 2 * PoseRun)

Scripts == {ThreePoses, Degenerate, Lingering} \cup {Interrupted(lead) : lead \in 0..MaxLead}

ScriptInit ==
    /\ Constructed
    /\ scene = OneFace(FrontFace)
    /\ script \in Scripts

ScriptedDetection(i) ==
    /\ loops[i].pc = "awaiting"
    /\ fed < Len(script)
    /\ Resume(i, script[fed + 1], script[fed + 1], TRUE)
    /\ fed' = fed + 1
    /\ now' = now + FramePeriod
    /\ obsSince' = ObservedSince(Cells, script[fed + 1])
    /\ UNCHANGED <<overlaps, script, observed>>

ScriptNext ==
    \/ handleStartCapture
    \/ ModelsLoaded
    \/ Render
    \/ CameraReady
    \/ StreamPlaying
    \/ VideoEvent
    \/ \E i \in LoopIds : FrameFires(i)
    \/ \E i \in LoopIds : ScriptedDetection(i)

ScriptSpec == ScriptInit /\ [][ScriptNext]_vars

\* ------------------------------------------------- the tracker on its own
\* updateStabilityCount and the reset of lines 327-333 applied to the two
\* refs, under every sequence of observed poses with few turns of the head
TrackerInit ==
    /\ Constructed
    /\ scene \in Scenes
    /\ script = <<>>

Observe ==
    /\ Len(observed) < MaxObservations
    /\ LET direction == determineFaceDirection(scene.landmarks)
           after == updateStabilityCount(Cells, direction)
       IN  /\ consecutiveDetectionsRef' = after.window
           /\ stableDirectionCountRef' = after.count
           /\ observed' = Append(observed, direction)
    /\ UNCHANGED <<home, homeNext, rendered, state, animationFrameRef,
                   lastCaptureTimeRef, listener, loops, stream, scene, sceneChanges, now,
                   overlaps, pendingSteps, completeCalls, lastTick, obsSince, fed, script>>

Turn ==
    /\ sceneChanges < MaxSceneChanges
    /\ scene' \in Scenes \ {scene}
    /\ sceneChanges' = sceneChanges + 1
    /\ UNCHANGED <<home, homeNext, rendered, state, animationFrameRef,
                   lastCaptureTimeRef, stableDirectionCountRef, consecutiveDetectionsRef,
                   listener, loops, stream, now, overlaps, pendingSteps, completeCalls,
                   lastTick, obsSince, fed, script, observed>>

FaceLost ==
    /\ observed # <<>>
    /\ LET after == ResetStability(Cells)
       IN  /\ consecutiveDetectionsRef' = after.window
           /\ stableDirectionCountRef' = after.count
    /\ observed' = <<>>
    /\ UNCHANGED <<home, homeNext, rendered, state, animationFrameRef,
                   lastCaptureTimeRef, listener, loops, stream, scene, sceneChanges, now,
                   overlaps, pendingSteps, completeCalls, lastTick, obsSince, fed, script>>

TrackerNext == Observe \/ Turn \/ FaceLost

TrackerSpec == TrackerInit /\ [][TrackerNext]_vars

\* ---- determineFaceDirection alone, on synthetic landmark sets ----

SyntheticLandmarks ==
    {Landmarks(n, lo, ro, li, ri, lm, rm) :
        n \in 0..MaxCoord, lo \in 0..MaxCoord, ro \in 0..MaxCoord,
        li \in 0..MaxCoord, ri \in 0..MaxCoord, lm \in 0..MaxCoord,
        rm \in 0..MaxCoord}

\* Every coordinate of the landmark set multiplied by k
Scaled(k, p) ==
    Landmarks(k * p.noseTip, k * p.leftEyeOuter, k * p.rightEyeOuter,
              k * p.leftEyeInner, k * p.rightEyeInner,
              k * p.leftMouthCorner, k * p.rightMouthCorner)

ClassifierInit ==
    /\ Constructed
    /\ scene \in {OneFace(p) : p \in SyntheticLandmarks}
    /\ script = <<>>

\* determineFaceDirection called from a place that also feeds the tracker
ClassifyAndTrack ==
    /\ Len(observed) = sceneChanges \/ (sceneChanges = 1 /\ Len(observed) = 2)
    /\ observed' = Append(observed, determineFaceDirection(scene.landmarks))
    /\ consecutiveDetectionsRef' =
           PushDetection(consecutiveDetectionsRef, determineFaceDirection(scene.landmarks))
    /\ UNCHANGED <<home, homeNext, rendered, state, animationFrameRef,
                   lastCaptureTimeRef, stableDirectionCountRef,
                   listener, loops, stream, scene, sceneChanges, now, overlaps,
                   pendingSteps, completeCalls, lastTick, obsSince, fed, script>>

\* One call of determineFaceDirection on the current landmark set; the scaled
\* set is classified twice
Classify ==
    /\ Len(observed) = sceneChanges \/ (sceneChanges = 1 /\ Len(observed) = 2)
    /\ observed' = Append(observed, determineFaceDirection(scene.landmarks))
    /\ UNCHANGED <<home, homeNext, rendered, state, animationFrameRef,
                   lastCaptureTimeRef, stableDirectionCountRef, consecutiveDetectionsRef,
                   listener, loops, stream, scene, sceneChanges, now, overlaps,
                   pendingSteps, completeCalls, lastTick, obsSince, fed, script>>

\* The same face seen k times larger
Rescale ==
    /\ sceneChanges = 0
    /\ Len(observed) = 1
    /\ \E k \in 2..MaxScale : scene' = OneFace(Scaled(k, scene.landmarks))
    /\ sceneChanges' = 1
    /\ UNCHANGED <<home, homeNext, rendered, state, animationFrameRef,
                   lastCaptureTimeRef, stableDirectionCountRef, consecutiveDetectionsRef,
                   listener, loops, stream, now, overlaps, pendingSteps, completeCalls,
                   lastTick, obsSince, fed, script, observed>>

ClassifierNext == Classify \/ Rescale

ClassifierSpec == ClassifierInit /\ [][ClassifierNext]_vars

\* ---- the button variant of CapturePage under the Home of pages/home ----
\* The overlay loop of this variant (setInterval(detectFaces, 100)) only
\* draws and is left out. loops[1] is the one captureImage call that can be
\* awaiting its detection.

\* What the button variant does not have
autoOnly == <<animationFrameRef, lastCaptureTimeRef, stableDirectionCountRef,
              consecutiveDetectionsRef, listener, overlaps, pendingSteps, now,
              obsSince, fed, script, observed>>

ManualInitialState ==
    [isLoading |-> TRUE, currentStep |-> "center", capturedImages |-> <<>>,
     error |-> Null, isProcessing |-> FALSE]

ManualClosure(s) == [currentStep |-> s.currentStep, capturedImages |-> s.capturedImages]

NoAttempt ==
    [faces |-> -1, step |-> "center", images |-> 0, captured |-> FALSE,
     failed |-> FALSE, completed |-> FALSE]

ManualInit ==
    /\ home = HomeInitial
    /\ homeNext = HomeInitial
    /\ rendered = ManualInitialState
    /\ state = ManualInitialState
    /\ animationFrameRef = 0
    /\ lastCaptureTimeRef = 0
    /\ stableDirectionCountRef = 0
    /\ consecutiveDetectionsRef = <<>>
    /\ listener = NoListener
    /\ loops = [i \in LoopIds |-> IdleLoop]
    /\ stream = "none"
    /\ scene \in Scenes
    /\ sceneChanges = 0
    /\ overlaps = 0
    /\ pendingSteps = 0
    /\ now = StartTime
    /\ completeCalls = <<>>
    /\ lastTick = NoAttempt
    /\ obsSince = -1
    /\ fed = 0
    /\ script = <<>>
    /\ observed = <<>>

\* handleStartCapture of Home, while sessions remain
StartSession ==
    /\ home.currentPage = "instructions"
    /\ homeNext.currentPage = "instructions"
    /\ Len(completeCalls) < MaxSessions
    /\ homeNext' = [homeNext EXCEPT !.currentPage = "capture"]
    /\ lastTick' = NoAttempt
    /\ UNCHANGED <<home, rendered, state, loops, stream, scene, sceneChanges,
                   completeCalls, autoOnly>>

\* a handleNext that leaves the stored images
handleNextKeepsImages ==
    /\ home.currentPage = "preview"
    /\ homeNext.currentPage = "preview"
    /\ homeNext' = [homeNext EXCEPT !.currentPage = "instructions"]
    /\ lastTick' = NoAttempt
    /\ UNCHANGED <<home, rendered, state, loops, stream, scene, sceneChanges,
                   completeCalls, autoOnly>>

\* handleNext of Home (pages/home/index.tsx:27-30): the button of the preview page
handleNext ==
    /\ home.currentPage = "preview"
    /\ homeNext.currentPage = "preview"
    /\ homeNext' = [currentPage |-> "instructions", capturedImages |-> <<>>]
    /\ lastTick' = NoAttempt
    /\ UNCHANGED <<home, rendered, state, loops, stream, scene, sceneChanges,
                   completeCalls, autoOnly>>

\* React applies the queued updates of Home and of the button variant
ManualRender ==
    /\ Dirty
    /\ home' = homeNext
    /\ IF ~Mounted /\ homeNext.currentPage = "capture"
       THEN /\ rendered' = ManualInitialState
            /\ state' = ManualInitialState
            /\ stream' = "none"
       ELSE IF Mounted /\ homeNext.currentPage # "capture"
       THEN /\ stream' = StopTracks(stream)
            /\ UNCHANGED <<rendered, state>>
       ELSE IF Mounted
       THEN /\ rendered' = state
            /\ stream' = IF rendered.isLoading /\ ~state.isLoading THEN "requested" ELSE stream
            /\ UNCHANGED state
       ELSE UNCHANGED <<rendered, state, stream>>
    /\ lastTick' = NoAttempt
    /\ UNCHANGED <<homeNext, loops, scene, sceneChanges, completeCalls, autoOnly>>

\* loadModels resolves: setIsLoading(false)
ManualModelsLoaded ==
    /\ Mounted
    /\ state.isLoading
    /\ state' = [state EXCEPT !.isLoading = FALSE]
    /\ lastTick' = NoAttempt
    /\ UNCHANGED <<home, homeNext, rendered, loops, stream, scene, sceneChanges,
                   completeCalls, autoOnly>>

\* getUserMedia resolves and initCamera attaches the stream to the video
ManualCameraReady ==
    /\ stream = "requested"
    /\ VideoRefSet
    /\ stream' = "attached"
    /\ lastTick' = NoAttempt
    /\ UNCHANGED <<home, homeNext, rendered, state, loops, scene, sceneChanges,
                   completeCalls, autoOnly>>

\* The catch block of the button variant and the setIsProcessing(false) after it
ManualFailed(s) == [s EXCEPT !.error = "capture", !.isProcessing = FALSE]

\* a rejection that leaves the processing flag set
ManualRejectedKeepsFlag(s, text) == [s EXCEPT !.error = text]

\* The two early returns after the detection call: setError, setIsProcessing(false)
ManualRejected(s, text) == [s EXCEPT !.error = text, !.isProcessing = FALSE]

\* A click on the Capture button: captureImage up to its await. React renders
\* the updates of a click before the next event is handled, so the button is
\* disabled before it can be clicked again. ok: the canvas gave a context.
handleCaptureClick ==
    /\ VideoRefSet
    /\ ~rendered.isProcessing
    /\ loops[1].pc = "idle"
    /\ \E ok \in BOOLEAN :
         IF ok
         THEN /\ state' = [state EXCEPT !.isProcessing = TRUE]
              /\ loops' = [loops EXCEPT ![1] = [pc |-> "awaiting",
                                                closure |-> ManualClosure(rendered)]]
              /\ lastTick' = NoAttempt
         ELSE /\ state' = ManualFailed(state)
              /\ loops' = loops
              /\ lastTick' = [NoAttempt EXCEPT !.faces = 0, !.failed = TRUE,
                                               !.step = state.currentStep,
                                               !.images = Len(state.capturedImages)]
    /\ rendered' = state'
    /\ UNCHANGED <<home, homeNext, stream, scene, sceneChanges, completeCalls, autoOnly>>

\* The rest of captureImage once the detection call has returned
ManualResume(detections, ok) ==
    LET c == loops[1].closure
        newImage == [dataUrl |-> toDataURL(scene), position |-> c.currentStep]
        updatedImages == Append(c.capturedImages, newImage)
        done == CompletesAt(c.currentStep)
        after == IF done THEN onComplete(Cells, updatedImages) ELSE Cells
    IN  /\ loops[1].pc = "awaiting"
        /\ loops' = [loops EXCEPT ![1] = IdleLoop]
        /\ lastTick' = [faces |-> detections.faces, step |-> state.currentStep,
                        images |-> Len(state.capturedImages),
                        captured |-> detections.faces = 1 /\ ok,
                        failed |-> detections.faces = 1 /\ ~ok,
                        completed |-> detections.faces = 1 /\ ok /\ done]
        /\ IF detections.faces = 0
           THEN /\ state' = ManualRejected(state, "no face")
                /\ UNCHANGED <<stream, completeCalls, homeNext>>
           ELSE IF detections.faces > 1
           THEN /\ state' = ManualRejected(state, "multiple faces")
                /\ UNCHANGED <<stream, completeCalls, homeNext>>
           ELSE IF ~ok
           THEN /\ state' = ManualFailed(state)
                /\ UNCHANGED <<stream, completeCalls, homeNext>>
           ELSE /\ state' = [state EXCEPT !.capturedImages = updatedImages,
                                          !.currentStep = NextStep(c.currentStep),
                                          !.error = Null,
                                          !.isProcessing = FALSE]
                /\ stream' = IF done THEN StopTracks(stream) ELSE stream
                /\ completeCalls' = after.completeCalls
                /\ homeNext' = after.homeNext
        /\ UNCHANGED <<home, rendered, scene, sceneChanges, autoOnly>>

\* The detection call returns the face the camera sees; ok: toDataURL did not throw
CaptureResolves == \E ok \in BOOLEAN : ManualResume(scene, ok)

\* The detection call returns no face, or two
CaptureGlitches == \E detections \in Glitches : ManualResume(detections, TRUE)

\* The detection call throws: the catch block
CaptureThrows ==
    /\ loops[1].pc = "awaiting"
    /\ loops' = [loops EXCEPT ![1] = IdleLoop]
    /\ state' = ManualFailed(state)
    /\ lastTick' = [NoAttempt EXCEPT !.faces = 0, !.failed = TRUE,
                                     !.step = state.currentStep,
                                     !.images = Len(state.capturedImages)]
    /\ UNCHANGED <<home, homeNext, rendered, stream, scene, sceneChanges,
                   completeCalls, autoOnly>>

\* The user turns the head while a capture is processing
ManualSceneChange ==
    /\ sceneChanges < MaxSceneChanges
    /\ loops[1].pc = "awaiting"
    /\ scene' \in Scenes \ {scene}
    /\ sceneChanges' = sceneChanges + 1
    /\ lastTick' = NoAttempt
    /\ UNCHANGED <<home, homeNext, rendered, state, loops, stream, completeCalls, autoOnly>>

ManualNext ==
    \/ StartSession
    \/ handleNext
    \/ ManualRender
    \/ ManualModelsLoaded
    \/ ManualCameraReady
    \/ handleCaptureClick
    \/ CaptureResolves
    \/ CaptureGlitches
    \/ CaptureThrows
    \/ ManualSceneChange

ManualSpec == ManualInit /\ [][ManualNext]_vars

\* ---- both variants of CapturePage ----
\* The state of the auto-capture variant has currentDirection, that of the
\* button variant has not
AutoVariant == "currentDirection" \in DOMAIN state

VariantsInit == Init \/ ManualInit

VariantsNext ==
    \/ AutoVariant /\ Next
    \/ ~AutoVariant /\ ManualNext

VariantsSpec == VariantsInit /\ [][VariantsNext]_vars

\* ------------------------------------------------------------- properties
IsPrefix(s, t) == Len(s) <= Len(t) /\ SubSeq(t, 1, Len(s)) = s

Suffix(s, n) == SubSeq(s, Len(s) - n + 1, Len(s))

Min(a, b) == IF a < b THEN a ELSE b

LinearMoves == {<<"center", "right">>, <<"right", "left">>, <<"left", "complete">>}

AllPositions == <<"center", "right", "left">>

LoopsOnlyStop == \A i \in LoopIds : loops'[i].pc \in {loops[i].pc, "idle"}

\* C1: whenever the capture step changes, it changes center->right,
\* right->left or left->complete.
C1_StepsOnlyForward ==
    [][state'.currentStep # state.currentStep
         => <<state.currentStep, state'.currentStep>> \in LinearMoves]_vars

\* C2: the list of captured images only grows by appending: every step leaves
\* the old list a prefix of the new one, and the positions are a prefix of
\* center, right, left.
C2_ImagesOnlyAppended ==
    [][/\ IsPrefix(state.capturedImages, state'.capturedImages)
       /\ IsPrefix(Positions(state'.capturedImages), AllPositions)]_vars

\* C3: onComplete is called at most once, it has been called exactly when the
\* step is complete, and its argument has the positions center, right, left.
C3_CompleteOnce ==
    /\ Len(completeCalls) <= 1
    /\ (Len(completeCalls) = 1) <=> (state.currentStep = "complete")
    /\ \A k \in 1..Len(completeCalls) : Positions(completeCalls[k]) = AllPositions

C3_Completed ==
    /\ state.currentStep = "complete"
    /\ Len(completeCalls) = 1
    /\ Len(state.capturedImages) = 3

\* C4: a tick that sees one face calls captureImage exactly when the direction
\* is the target of the current step, the count is at least 8, more than
\* 1500 ms passed since the last capture and the step is not complete; a tick
\* that sees no face or several never calls it.
C4_CaptureIffGate ==
    /\ lastTick.faces = 1 =>
          (lastTick.called <=>
             /\ lastTick.direction = targetDirection(lastTick.step)
             /\ lastTick.count >= StableThreshold
             /\ lastTick.elapsed > CooldownMs
             /\ lastTick.step # "complete")
    /\ lastTick.faces \in {0, 2} => ~lastTick.called

C6_QuietAfterComplete ==
    [][state.currentStep = "complete"
         => state'.currentStep = "complete" /\ LoopsOnlyStop]_vars

\* C7: after the component was unmounted, a tick whose detection call was in
\* flight does not schedule a new tick when it resumes.
C7_NoRescheduleAfterTeardown ==
    [][home.currentPage = "preview"
         => \A i \in LoopIds : ~(loops[i].pc = "awaiting" /\ loops'[i].pc = "scheduled")]_vars

\* C8: once the script front x12, right x12, left x12 has been delivered, the
\* step is complete, the images are center, right, left and onComplete was
\* called once with them.
C8_ScriptCompletes ==
    (script = ThreePoses /\ fed = Len(script))
        => /\ state.currentStep = "complete"
           /\ Positions(state.capturedImages) = AllPositions
           /\ completeCalls = <<state.capturedImages>>

\* C9: after a no-face tick before the first capture, no image is captured
\* while fewer than 8 target-pose observations have followed it.
C9_NoCaptureUntilRestabilised ==
    obsSince \in 0..(StableThreshold - 1) => Len(state.capturedImages) = 0

C9_AlmostRestabilised ==
    /\ obsSince = StableThreshold - 1
    /\ stableDirectionCountRef = StableThreshold - 1
    /\ fed >= 2 * StableThreshold - 1

\* C10: the window is the last 10 observations at most, in their order, and
\* after 10 or more identical observations in a row the count is 10.
C10_WindowIsLastTen ==
    /\ Len(consecutiveDetectionsRef) <= WindowCapacity
    /\ consecutiveDetectionsRef = Suffix(observed, Min(Len(observed), WindowCapacity))
    /\ (/\ Len(observed) >= WindowCapacity
        /\ \A k \in 1..WindowCapacity :
              observed[Len(observed) - k + 1] = observed[Len(observed)])
          => stableDirectionCountRef = WindowCapacity

C10_OldestDropped ==
    /\ Len(observed) = MaxObservations
    /\ observed[1] # observed[MaxObservations]
    /\ stableDirectionCountRef = WindowCapacity

\* C11: after an observation the count is the number of window entries equal
\* to the direction just observed.
C11_CountsNewestDirection ==
    observed # <<>> =>
        stableDirectionCountRef =
            Cardinality({k \in 1..Len(consecutiveDetectionsRef) :
                            consecutiveDetectionsRef[k] = observed[Len(observed)]})

\* the newest direction is in the minority: the count is below the mode's
C11_NewestInMinority ==
    /\ Len(observed) > WindowCapacity
    /\ stableDirectionCountRef = 2
    /\ \E d \in {"front", "right", "left"} :
          Cardinality({k \in 1..Len(consecutiveDetectionsRef) :
                          consecutiveDetectionsRef[k] = d}) > 2

StableTargetTick ==
    /\ lastTick.faces = 1
    /\ lastTick.closureStep # "complete"
    /\ lastTick.direction = targetDirection(lastTick.closureStep)
    /\ lastTick.count >= StableThreshold

\* C13: the gate permits the capture exactly when more than 1500 ms passed
\* since the last capture timestamp, however many ticks ran meanwhile.
C13_GateStrictlyAfterCooldown ==
    StableTargetTick => (lastTick.called <=> lastTick.elapsed > CooldownMs)

\* the second capture of a session, let through by the gate
C13_GatePermits ==
    /\ StableTargetTick
    /\ lastTick.images = 1
    /\ lastTick.elapsed = 2 * ClockStep
    /\ lastTick.captured

\* C14 as stated: the gate denies within the cooldown and permits at the
\* boundary, now - lastCaptureTimestamp = 1500, and later.
C14_GatePermitsAtBoundary ==
    (StableTargetTick /\ lastTick.images > 0)
        => (lastTick.called <=> lastTick.elapsed >= CooldownMs)

\* C14 amended: after a capture the gate denies up to and including the
\* boundary, now - lastCaptureTimestamp = 1500, and permits at any later time.
C14_GateDeniesThroughBoundary ==
    (StableTargetTick /\ lastTick.images > 0)
        => /\ lastTick.elapsed \in 0..CooldownMs => ~lastTick.called /\ ~lastTick.captured
           /\ lastTick.elapsed > CooldownMs => lastTick.called

\* a stable target tick exactly at the boundary
C14_TickAtBoundary ==
    /\ StableTargetTick
    /\ lastTick.images > 0
    /\ lastTick.elapsed = CooldownMs
    /\ ~lastTick.called

\* C15: a tick whose captureImage call failed while drawing or encoding
\* appends no image, leaves the step, does not call onComplete, sets the
\* error message, leaves the in-progress flag cleared, schedules the next
\* tick and leaves the count stable and the timestamp as it was, so that the
\* next tick can try again.
C15_FailedCaptureChangesNothing ==
    [][lastTick'.failed =>
         /\ state'.capturedImages = state.capturedImages
         /\ state'.currentStep = state.currentStep
         /\ completeCalls' = completeCalls
         /\ homeNext' = homeNext
         /\ state'.error = "capture"
         /\ state'.isCapturing = FALSE
         /\ stableDirectionCountRef' >= StableThreshold
         /\ lastCaptureTimeRef' = lastCaptureTimeRef
         /\ \E i \in LoopIds : loops[i].pc = "awaiting" /\ loops'[i].pc = "scheduled"]_vars

\* the capture of the left image fails: the session does not complete
C15_LastCaptureFailed ==
    /\ lastTick.failed
    /\ lastTick.closureStep = "left"
    /\ state.currentStep = "left"
    /\ completeCalls = <<>>

\* A detection call ends without a result: a loop leaves its await and no
\* tick record is written
DetectionFailed ==
    /\ lastTick'.faces = -1
    /\ \E i \in LoopIds : loops[i].pc = "awaiting" /\ loops'[i].pc # "awaiting"

\* C16: when the detection call throws, no tick is scheduled any more and an
\* error is set.
C16_DetectorFailureStopsLoop ==
    [][DetectionFailed =>
         /\ \A i \in LoopIds : loops'[i].pc = "idle"
         /\ state'.error # Null]_vars

\* C17: a tick that saw several faces leaves the state, the window, the
\* count and the timestamp exactly as a no-face tick would have: the window
\* empty, the count 0, the direction cleared, no capture; its status text is
\* not the one of a no-face tick.
C17_SeveralFacesGateLikeNoFace ==
    [][lastTick'.faces = 2 =>
         /\ \E i \in LoopIds :
               /\ loops[i].pc = "awaiting"
               /\ LET none == AfterDetection(Cells, loops[i].closure, NoFace, now, scene, TRUE)
                  IN  /\ state' = none.state
                      /\ consecutiveDetectionsRef' = none.window
                      /\ stableDirectionCountRef' = none.count
                      /\ lastCaptureTimeRef' = none.last
         /\ consecutiveDetectionsRef' = <<>>
         /\ stableDirectionCountRef' = 0
         /\ Mounted => state'.currentDirection = Null
         /\ ~lastTick'.called
         /\ state'.capturedImages = state.capturedImages
         /\ lastTick'.status # statusText(NoFace)]_vars

\* a tick with two faces in step right, after the center capture
C17_SeveralFacesAfterCapture ==
    /\ lastTick.faces = 2
    /\ state.currentStep = "right"
    /\ Len(state.capturedImages) = 1
    /\ state.currentDirection = Null
    /\ lastTick.status = "Multiple faces detected - show only one face"

\* C18: while the detector delivers frames with zero eye distance, no
\* direction is shown, the window stays empty, the count stays 0 and no image
\* is captured.
C18_DegenerateFrameIsNoFace ==
    script = Degenerate =>
        /\ lastTick.direction = Null
        /\ state.currentDirection = Null
        /\ consecutiveDetectionsRef = <<>>
        /\ stableDirectionCountRef = 0
        /\ state.capturedImages = <<>>

\* C19: a landmark set with non-zero eye distance whose average deviation is
\* above PROFILE_THRESHOLD is classified right and one whose average deviation
\* is below -PROFILE_THRESHOLD is classified left, whatever its eye widths are.
C19_StrongOffsetDecidesProfile ==
    (observed # <<>> /\ EyeDist2(scene.landmarks) > 0) =>
        /\ AvgAboveProfile(scene.landmarks) => observed[Len(observed)] = "right"
        /\ AvgBelowMinusProfile(scene.landmarks) => observed[Len(observed)] = "left"

\* C20: a landmark set with non-zero eye distance and the same set with every
\* coordinate multiplied by k > 0 get the same direction.
C20_ScaleInvariant ==
    (Len(observed) = 2 /\ EyeDist2(scene.landmarks) > 0) => observed[2] = observed[1]

C20_ScaledProfileClassified ==
    /\ Len(observed) = 2
    /\ sceneChanges = 1
    /\ EyeDist2(scene.landmarks) > 0
    /\ observed[2] = "left"
    /\ ~AvgBelowMinusProfile(scene.landmarks)

\* noseDeviation = 0, mouthDeviation = 0 and eyeRatio = 1
Centred(p) ==
    /\ EyeDist2(p) > 0
    /\ NoseNum(p) = 0
    /\ MouthNum(p) = 0
    /\ leftEyeWidth(p) = rightEyeWidth(p)
    /\ rightEyeWidth(p) > 0

\* C21: a landmark set with zero nose and mouth deviation and eye ratio 1 is
\* classified front, and the result carries the confidence 1.0.
C21_CentredIsFrontWithFullConfidence ==
    (observed # <<>> /\ Centred(scene.landmarks)) =>
        /\ observed[Len(observed)] = "front"
        /\ confidence(scene.landmarks) = "1.0"

LoopAlive == \E i \in LoopIds : loops[i].pc # "idle"

\* C23: while the component is mounted and the step is not complete a running
\* detection loop keeps running, also across the renders that follow a capture
\* or a change of the displayed direction; and a tick that runs after the
\* render of a step compares the direction with the target of that step.
C23_TicksContinueWithCurrentStep ==
    [][/\ (LoopAlive /\ Mounted' /\ state'.currentStep # "complete") => LoopAlive'
       /\ (lastTick'.faces # -1 /\ rendered'.currentStep = lastTick'.step) =>
              lastTick'.closureStep = lastTick'.step]_vars

\* C24: at most one tick is awaiting its detection call.
C24_OneDetectionInFlight ==
    Cardinality({i \in LoopIds : loops[i].pc = "awaiting"}) <= 1

\* C25: right after a capture that moved the step to right or left the window
\* is empty, the count is 0, the last-capture timestamp is the time of the
\* capture and the cooldown gate is closed.
C25_TransitionResetsTracker ==
    (lastTick.captured /\ state.currentStep \in {"right", "left"}) =>
        /\ consecutiveDetectionsRef = <<>>
        /\ stableDirectionCountRef = 0
        /\ lastCaptureTimeRef = now
        /\ ~cooldownPassed(now, lastCaptureTimeRef)

C25_MovedToLeft ==
    /\ lastTick.captured
    /\ lastTick.step = "right"
    /\ state.currentStep = "left"
    /\ Len(state.capturedImages) = 2

\* C26: the last-capture timestamp changes only in a tick whose captureImage
\* call appended an image, and then to the time of that tick; every other
\* tick, a rejected call, a failed capture and a failed detection leave it.
C26_StampOnlyOnCapture ==
    [][lastCaptureTimeRef' # lastCaptureTimeRef =>
         lastTick'.captured /\ lastCaptureTimeRef' = now']_vars

\* a failed capture after the first image left the timestamp of that image
C26_FailedCaptureKeptStamp ==
    /\ lastTick.failed
    /\ lastTick.images = 1
    /\ lastCaptureTimeRef = now - lastTick.elapsed
    /\ lastCaptureTimeRef > 0

\* C27: a landmark set whose average deviation is beyond 0.15 in absolute
\* value, or whose eye ratio is below 0.7 or above 1.4, is classified as a
\* profile pose (first rule of the precedence).
C27_StrongCueGivesProfile ==
    LET p == scene.landmarks
        L == leftEyeWidth(p)
        R == rightEyeWidth(p)
        strong == \/ 5 * Abs(NoseNum(p) + MouthNum(p)) > 3 * EyeDist2(p)
                  \/ 10 * L < 7 * R
                  \/ 5 * L > 7 * R
    IN  (observed # <<>> /\ EyeDist2(p) > 0 /\ R > 0 /\ strong) =>
            observed[Len(observed)] \in {"right", "left"}

\* C28: the tick in which the gate fires does not grab the frame itself: the
\* image is appended in a later step, after the settling delay.
C28_GrabAfterSettlingDelay ==
    [][lastTick'.called => state'.capturedImages = state.capturedImages]_vars

\* C29: the targets of the steps center, right and left are front, right and
\* left, a tick of step complete calls no capture, and the position of every
\* captured image is the step the session was in when the image was captured.
C29_PositionIsStepOfCapture ==
    /\ targetDirection("center") = "front"
    /\ targetDirection("right") = "right"
    /\ targetDirection("left") = "left"
    /\ lastTick.closureStep = "complete" => ~lastTick.called
    /\ lastTick.captured =>
          state.capturedImages[Len(state.capturedImages)].position = lastTick.step

\* C30: when CapturePage mounts, the step is center, no image is captured, the
\* window is empty, the count and the last-capture timestamp are 0; and a
\* tick that finds the target direction stable while the timestamp is still 0
\* calls captureImage: the cooldown does not hold back the first capture.
C30_SessionStartsOpen ==
    [][/\ (~Mounted /\ Mounted') =>
              /\ state'.currentStep = "center"
              /\ state'.capturedImages = <<>>
              /\ consecutiveDetectionsRef' = <<>>
              /\ stableDirectionCountRef' = 0
              /\ lastCaptureTimeRef' = 0
       /\ (StableTargetTick' /\ lastCaptureTimeRef = 0) => lastTick'.called]_vars

C30_FirstCapture ==
    /\ lastTick.captured
    /\ lastTick.step = "center"
    /\ lastTick.images = 0
    /\ lastTick.elapsed = now
    /\ Len(state.capturedImages) = 1

\* The number of steps a session in `step` has advanced
StepsAdvanced(step) ==
    CASE step = "center" -> 0
      [] step = "right" -> 1
      [] step = "left" -> 2
      [] step = "complete" -> 3

\* C31: in both variants the number of captured images equals the number of
\* steps advanced: 0 in center, 1 in right, 2 in left, 3 in complete.
C31_ImagesMatchStep ==
    Len(state.capturedImages) = StepsAdvanced(state.currentStep)

\* a capture made from a stale closure, beside a second loop
C31_StaleOverlappingCapture ==
    /\ AutoVariant
    /\ lastTick.captured
    /\ lastTick.closureStep # lastTick.step
    /\ overlaps > 0

\* The ticks of a scripted session after the previous capture, up to the last
\* tick, that saw one face in the target pose of `step`
TargetTicksSinceCapture(step) ==
    LET first == fed - (lastTick.elapsed \div FramePeriod) + 1
    IN  {j \in first..fed :
            /\ script[j].faces = 1
            /\ determineFaceDirection(script[j].landmarks) = targetDirection(step)}

\* C32: when a capture follows another capture of the session, at least 8
\* single-face ticks in the target pose of the new step lie between the two
\* and more than 1500 ms have passed.
C32_EightTargetTicksBetweenCaptures ==
    (lastTick.captured /\ lastTick.images >= 1) =>
        /\ Cardinality(TargetTicksSinceCapture(lastTick.step)) >= StableThreshold
        /\ lastTick.elapsed > CooldownMs

\* 0.1 <= |avgDeviation| <= 0.2 and 0.6 <= eyeRatio <= 1.4: neither the front
\* test nor a profile test matches
BetweenThresholds(p) ==
    /\ EyeDist2(p) > 0
    /\ rightEyeWidth(p) > 0
    /\ 10 * Abs(NoseNum(p) + MouthNum(p)) >= 4 * EyeDist2(p)
    /\ 5 * Abs(NoseNum(p) + MouthNum(p)) <= 4 * EyeDist2(p)
    /\ 5 * leftEyeWidth(p) >= 3 * rightEyeWidth(p)
    /\ 5 * leftEyeWidth(p) <= 7 * rightEyeWidth(p)

\* C33: determineFaceDirection returns front, right or left for every
\* landmark set, also one with zero eye distance or zero eye width, and
\* front for every set between the thresholds.
C33_ClassifierIsTotal ==
    \A k \in 1..Len(observed) :
        /\ observed[k] \in {"front", "right", "left"}
        /\ (k = Len(observed) /\ BetweenThresholds(scene.landmarks)) => observed[k] = "front"

C33_DefaultBranchTaken ==
    /\ observed # <<>>
    /\ BetweenThresholds(scene.landmarks)
    /\ NoseNum(scene.landmarks) + MouthNum(scene.landmarks) # 0
    /\ observed[Len(observed)] = "front"

\* avgDeviation < -0.2 with eyeRatio > 1.4, or avgDeviation > 0.2 with
\* eyeRatio < 0.6
CuesConflict(p) ==
    LET S == NoseNum(p) + MouthNum(p)
        D == EyeDist2(p)
        L == leftEyeWidth(p)
        R == rightEyeWidth(p)
    IN  /\ D > 0
        /\ R > 0
        /\ \/ 5 * S < -(4 * D) /\ 5 * L > 7 * R
           \/ 5 * S > 4 * D /\ 5 * L < 3 * R

\* C34: a landmark set classified left has avgDeviation <= 0.2 and
\* eyeRatio <= 1.4, and avgDeviation < -0.2 or eyeRatio < 0.6; a set whose
\* cues conflict is classified right.
C34_RightBeforeLeft ==
    LET p == scene.landmarks
        S == NoseNum(p) + MouthNum(p)
        D == EyeDist2(p)
        L == leftEyeWidth(p)
        R == rightEyeWidth(p)
    IN  observed # <<>> =>
            /\ (observed[Len(observed)] = "left" /\ D > 0 /\ R > 0) =>
                  /\ 5 * S <= 4 * D
                  /\ 5 * L <= 7 * R
                  /\ 5 * S < -(4 * D) \/ 5 * L < 3 * R
            /\ CuesConflict(p) => observed[Len(observed)] = "right"

C34_ConflictClassifiedRight ==
    /\ observed # <<>>
    /\ CuesConflict(scene.landmarks)
    /\ 5 * leftEyeWidth(scene.landmarks) < 3 * rightEyeWidth(scene.landmarks)
    /\ observed[Len(observed)] = "right"

\* C35: 0 <= count <= length of the window <= 10, the count is 0 exactly when
\* the window is empty, and the count updateStabilityCount leaves behind in a
\* single-face tick is at least 1.
C35_CountWithinWindow ==
    /\ 0 <= stableDirectionCountRef
    /\ stableDirectionCountRef <= Len(consecutiveDetectionsRef)
    /\ Len(consecutiveDetectionsRef) <= WindowCapacity
    /\ stableDirectionCountRef = 0 <=> consecutiveDetectionsRef = <<>>
    /\ lastTick.faces = 1 => lastTick.count >= 1

C35_MixedFullWindow ==
    /\ Len(consecutiveDetectionsRef) = WindowCapacity
    /\ stableDirectionCountRef \in 1..(WindowCapacity - 1)
    /\ lastTick.faces = 1

\* C36: a tick whose capture failed leaves the window and the count as
\* updateStabilityCount set them and the timestamp as it was, so that a next
\* tick of the same loop that sees the same pose calls captureImage again; a
\* detection call that throws leaves window, count and timestamp unchanged.
C36_FailuresKeepGateOpen ==
    [][/\ lastTick'.failed =>
              /\ consecutiveDetectionsRef' =
                     PushDetection(consecutiveDetectionsRef, lastTick'.direction)
              /\ stableDirectionCountRef' = lastTick'.count
              /\ lastCaptureTimeRef' = lastCaptureTimeRef
              /\ AutoCapture([currentStep |-> lastTick'.closureStep],
                             lastTick'.direction,
                             updateStabilityCount(
                                 [window |-> consecutiveDetectionsRef',
                                  count |-> stableDirectionCountRef'],
                                 lastTick'.direction).count,
                             now', lastCaptureTimeRef')
       /\ DetectionFailed =>
              UNCHANGED <<consecutiveDetectionsRef, stableDirectionCountRef,
                          lastCaptureTimeRef>>]_vars

\* the first capture of a session failed
C36_FirstCaptureFailed ==
    /\ lastTick.failed
    /\ lastTick.images = 0
    /\ lastCaptureTimeRef = 0
    /\ stableDirectionCountRef >= StableThreshold

\* C37: in the button variant an attempt whose detection reports no face or
\* more than one sets an error, appends no image, keeps the step, calls no
\* onComplete and clears the processing flag; an image is appended only by an
\* attempt with exactly one face, for the current step, which then advances.
C37_OnlyOneFaceIsCaptured ==
    [][/\ (lastTick'.faces >= 0 /\ lastTick'.faces # 1 /\ ~lastTick'.failed) =>
              /\ state'.error \in {"no face", "multiple faces"}
              /\ state'.capturedImages = state.capturedImages
              /\ state'.currentStep = state.currentStep
              /\ completeCalls' = completeCalls
              /\ homeNext' = homeNext
              /\ state'.isProcessing = FALSE
       /\ (state'.capturedImages # state.capturedImages
              /\ state'.capturedImages # <<>>) =>
              /\ lastTick'.faces = 1
              /\ lastTick'.captured
              /\ Len(state'.capturedImages) = Len(state.capturedImages) + 1
              /\ IsPrefix(state.capturedImages, state'.capturedImages)
              /\ state'.capturedImages[Len(state'.capturedImages)].position =
                     state.currentStep
              /\ state'.currentStep = NextStep(state.currentStep)
              /\ state'.isProcessing = FALSE]_vars

\* two faces were reported on the attempt for the second image
C37_TwoFacesOnSecondAttempt ==
    /\ lastTick.faces = 2
    /\ ~lastTick.failed
    /\ state.error = "multiple faces"
    /\ Len(state.capturedImages) = 1
    /\ state.currentStep = "right"
    /\ ~state.isProcessing

\* the page moves Home can make
PageMoves ==
    { <<"instructions", "capture">>, <<"capture", "preview">>,
      <<"preview", "instructions">> }

\* C38: Home only moves instructions -> capture, capture -> preview and, in the
\* typed variant, preview -> instructions; the preview page shows exactly the
\* list of the last onComplete call; on the instructions page the stored list
\* is empty, so a session starts with no image.
C38_PageFlow ==
    [][/\ homeNext'.currentPage # homeNext.currentPage =>
              /\ <<homeNext.currentPage, homeNext'.currentPage>> \in PageMoves
              /\ homeNext.currentPage = "preview" => ~AutoVariant
       /\ homeNext'.currentPage = "preview" =>
              /\ completeCalls' # <<>>
              /\ homeNext'.capturedImages = completeCalls'[Len(completeCalls')]
       /\ home'.currentPage = "preview" =>
              /\ completeCalls' # <<>>
              /\ home'.capturedImages = completeCalls'[Len(completeCalls')]
       /\ homeNext'.currentPage = "instructions" => homeNext'.capturedImages = <<>>
       /\ home'.currentPage = "instructions" => home'.capturedImages = <<>>
       /\ (home'.currentPage = "capture" /\ home.currentPage # "capture") =>
              /\ home'.capturedImages = <<>>
              /\ state'.capturedImages = <<>>]_vars

\* the preview page of a second session
C38_SecondPreview ==
    /\ ~AutoVariant
    /\ Len(completeCalls) = 2
    /\ home.currentPage = "preview"
    /\ home.capturedImages = completeCalls[2]

\* C39: the capture-in-progress flag is false whenever no captureImage call
\* is executing: neither the state, nor the rendered state, nor the closure of
\* any loop holds it set, so no tick and no capture is refused because of it.
C39_FlagNeverStuck ==
    /\ ~state.isCapturing
    /\ ~rendered.isCapturing
    /\ \A i \in LoopIds : ~loops[i].closure.isCapturing

\* the capture of the second image failed and the flag is clear
C39_ClearAfterFailedSecondCapture ==
    /\ lastTick.failed
    /\ state.error = "capture"
    /\ Len(state.capturedImages) = 1
    /\ ~state.isCapturing

====
